---- MODULE Spec2Model ----
(***************************************************************************)
(* A model of fsrapiclient (src/src/fsrapiclient): the session, the        *)
(* response wrapper and the client's search and detail operations.         *)
(*                                                                         *)
(* Strings the code only passes around are TLA+ strings.  Text the code    *)
(* builds or inspects piecewise (URLs, query strings, messages) is a       *)
(* sequence of tokens, so that concatenation is \o and a path separator    *)
(* is the token "/".  JSON values are tagged records [t, v].               *)
(***************************************************************************)
EXTENDS Integers, Sequences, FiniteSets, TLC

(***************************************************************************)
(* Bounds of the model.                                                    *)
(***************************************************************************)
MaxRecords == 2        \* longest 'Data' list the remote side sends
MaxModifiers == 2      \* longest modifier tuple handed to the base handlers

(***************************************************************************)
(* constants.py                                                            *)
(***************************************************************************)
BASEURL == <<"https:", "/", "/", "register.fca.org.uk", "/", "services">>

API_VERSION == "V0.1"

RESOURCE_TYPES ==
    [firm       |-> [type_name |-> "firm",       endpoint_base |-> "Firm"],
     fund       |-> [type_name |-> "fund",       endpoint_base |-> "CIS"],
     individual |-> [type_name |-> "individual", endpoint_base |-> "Individuals"]]

(***************************************************************************)
(* JSON values as the json decoder hands them to the code, with None for   *)
(* null.                                                                   *)
(***************************************************************************)
JNull == [t |-> "null", v |-> ""]
JBool(b) == [t |-> "bool", v |-> b]
JNum(n) == [t |-> "num", v |-> n]
JStr(s) == [t |-> "str", v |-> s]
JList(s) == [t |-> "list", v |-> s]
JObj(f) == [t |-> "obj", v |-> f]

(***************************************************************************)
(* Results of evaluating a Python expression: a value, or the class of the *)
(* exception it raised.                                                    *)
(***************************************************************************)
Val(x) == [exc |-> "", val |-> x]
Exc(e) == [exc |-> e, val |-> JNull]

(***************************************************************************)
(* The exception classes involved, each with its base class.               *)
(***************************************************************************)
ExcBase ==
    [FsrApiException         |-> "Exception",
     FsrApiRequestException  |-> "FsrApiException",
     FsrApiResponseException |-> "FsrApiException",
     RequestException        |-> "OSError",
     ConnectionError         |-> "RequestException",
     Timeout                 |-> "RequestException",
     JSONDecodeError         |-> "RequestException",
     OSError                 |-> "Exception",
     LookupError             |-> "Exception",
     KeyError                |-> "LookupError",
     IndexError              |-> "LookupError",
     TypeError               |-> "Exception",
     AttributeError          |-> "Exception",
     Exception               |-> "Exception"]

ExcClasses == DOMAIN ExcBase

RECURSIVE IsSubclass(_, _)
IsSubclass(c, d) ==
    IF c = d THEN TRUE
    ELSE IF ExcBase[c] = c THEN FALSE
    ELSE IsSubclass(ExcBase[c], d)

(***************************************************************************)
(* Python's truth value, len() and indexing on decoded JSON.               *)
(***************************************************************************)
Truthy(j) ==
    CASE j.t = "null" -> FALSE
      [] j.t = "bool" -> j.v
      [] j.t = "num"  -> j.v # 0
      [] j.t = "str"  -> Len(j.v) > 0
      [] j.t = "list" -> Len(j.v) > 0
      [] j.t = "obj"  -> DOMAIN j.v # {}

PyLen(j) ==
    CASE j.t = "str"  -> Val(Len(j.v))
      [] j.t = "list" -> Val(Len(j.v))
      [] j.t = "obj"  -> Val(Cardinality(DOMAIN j.v))
      [] OTHER        -> Exc("TypeError")

\* j[0]
PyFirst(j) ==
    CASE j.t = "list" -> IF Len(j.v) > 0 THEN Val(j.v[1]) ELSE Exc("IndexError")
      [] j.t = "str"  -> IF Len(j.v) > 0 THEN Val(JStr("c")) ELSE Exc("IndexError")  \* a one-character str
      [] j.t = "obj"  -> Exc("KeyError")
      [] OTHER        -> Exc("TypeError")

\* j[key] for a string key
PyItem(j, key) ==
    CASE j.t = "obj" -> IF key \in DOMAIN j.v THEN Val(j.v[key]) ELSE Exc("KeyError")
      [] OTHER       -> Exc("TypeError")

\* dict.get(key) on the decoded body
DictGet(j, key) ==
    CASE j.t = "obj" -> IF key \in DOMAIN j.v THEN Val(j.v[key]) ELSE Val(JNull)
      [] OTHER       -> Exc("AttributeError")

(***************************************************************************)
(* FsrApiResponse: the wrapped requests.Response.  status and reason are   *)
(* the HTTP status line, body is the text the server sent: valid says      *)
(* whether it decodes as JSON, json is the decoded value.                  *)
(***************************************************************************)
\* requests.Response.ok, read by the search methods
ok(res) == ~(res.status >= 400 /\ res.status < 600)

\* self.json()
json(res) == IF res.body.valid THEN Val(res.body.json) ELSE Exc("JSONDecodeError")

EnvelopeGet(res, key) ==
    LET j == json(res) IN IF j.exc # "" THEN j ELSE DictGet(j.val, key)

fsr_status(res) == EnvelopeGet(res, "Status")

fsr_resultinfo(res) == EnvelopeGet(res, "ResultInfo")

\* variant: the property reads the key of fsr_status
fsr_message_reads_status(res) == EnvelopeGet(res, "Status")

fsr_message(res) == EnvelopeGet(res, "Message")

\* variant: self.json()['Data'] in place of .get('Data')
fsr_data_subscript(res) ==
    LET j == json(res) IN IF j.exc # "" THEN j ELSE PyItem(j.val, "Data")

fsr_data(res) == EnvelopeGet(res, "Data")

(***************************************************************************)
(* Outcomes of a client operation: a returned value (kind "return": value  *)
(* for the search methods, response for the others) or a raised exception  *)
(* (kind "raise": its class exc, its message msg, and cause, the class of  *)
(* the exception it was constructed from).                                 *)
(***************************************************************************)
NoResponse == [status |-> 0, reason |-> "", body |-> [valid |-> FALSE, json |-> JNull]]

NoOutcome ==
    [kind |-> "none", exc |-> "", cause |-> "", msg |-> <<>>,
     value |-> JNull, response |-> NoResponse]

ReturnValue(x) == [NoOutcome EXCEPT !.kind = "return", !.value = x]

ReturnResponse(res) == [NoOutcome EXCEPT !.kind = "return", !.response = res]

Raise(e, m) == [NoOutcome EXCEPT !.kind = "raise", !.exc = e, !.msg = m]

RaiseFrom(e, c) == [NoOutcome EXCEPT !.kind = "raise", !.exc = e, !.cause = c]

(***************************************************************************)
(* The messages of the search methods, word by word.                       *)
(***************************************************************************)
UseCommonSearch ==
    <<"If", "you", "are", "unsure", "of", "the", "results", "please", "use",
      "the", "common", "search", "endpoint">>

MultipleFirmsMsg ==
    <<"Multiple", "firms", "returned.", "Firm", "name", "needs", "to", "be",
      "more", "precise.">> \o UseCommonSearch

MultipleIndividualsMsg ==
    <<"Multiple", "individuals", "returned.", "The", "individual", "name",
      "needs", "to", "be", "more", "precise.">> \o UseCommonSearch

MultipleFundsMsg ==
    <<"Multiple", "funds", "returned.", "The", "fund", "name", "needs", "to",
      "be", "more", "precise.">> \o UseCommonSearch

UnexpectedMsg(noun) ==
    <<"Unexpected", "response", "data", "structure", "from", "the", "FS",
      "Register", "API", "for", "general", noun, "search", "by", "name!",
      "Please", "check", "the", "FS", "Register", "API", "developer",
      "documentation", "at", "https://register.fca.org.uk/Developer/s/">>

NoDataMsg ==
    <<"No", "data", "found", "in", "FS", "Register", "API", "response.",
      "Please", "check", "the", "search", "parameters", "and", "try",
      "again.">>

OtherReasonMsg(reason) ==
    <<"FS", "Register", "API", "search", "request", "failed", "for", "some",
      "other", "reason:", reason>>

(***************************************************************************)
(* The part of search_frn, search_irn and search_prn that follows the      *)
(* call of common_search, given the response res it returned.  An          *)
(* exception no except clause catches leaves the method as it is.          *)
(***************************************************************************)
\* variant: another field of the record is read
ReferenceNumber_other_field(data) ==
    LET first == PyFirst(data)
    IN  IF first.exc # "" THEN first ELSE PyItem(first.val, "Name")

\* res.fsr_data[0]['Reference Number']
ReferenceNumber(data) ==
    LET first == PyFirst(data)
    IN  IF first.exc # "" THEN first ELSE PyItem(first.val, "Reference Number")

\* except (KeyError, IndexError)
CaughtByExtract(e) == IsSubclass(e, "KeyError") \/ IsSubclass(e, "IndexError")

\* variant: the length test lets two records through
search_frn_decide_two(res) ==
    LET data == fsr_data(res) IN
    IF data.exc # "" THEN Raise(data.exc, <<>>)
    ELSE IF ok(res) /\ Truthy(data.val) THEN
        LET n == PyLen(data.val) IN
        IF n.exc # "" THEN Raise(n.exc, <<>>)
        ELSE IF n.val > 2 THEN Raise("FsrApiResponseException", MultipleFirmsMsg)
        ELSE LET ref == ReferenceNumber(data.val) IN
             IF ref.exc = "" THEN ReturnValue(ref.val)
             ELSE IF CaughtByExtract(ref.exc)
                  THEN Raise("FsrApiResponseException", UnexpectedMsg("firm"))
                  ELSE Raise(ref.exc, <<>>)
    ELSE IF ~Truthy(data.val) THEN Raise("FsrApiResponseException", NoDataMsg)
    ELSE Raise("FsrApiResponseException", OtherReasonMsg(res.reason))

search_frn_decide(res) ==
    LET data == fsr_data(res) IN
    IF data.exc # "" THEN Raise(data.exc, <<>>)
    ELSE IF ok(res) /\ Truthy(data.val) THEN
        LET n == PyLen(data.val) IN
        IF n.exc # "" THEN Raise(n.exc, <<>>)
        ELSE IF n.val > 1 THEN Raise("FsrApiResponseException", MultipleFirmsMsg)
        ELSE LET ref == ReferenceNumber(data.val) IN
             IF ref.exc = "" THEN ReturnValue(ref.val)
             ELSE IF CaughtByExtract(ref.exc)
                  THEN Raise("FsrApiResponseException", UnexpectedMsg("firm"))
                  ELSE Raise(ref.exc, <<>>)
    ELSE IF ~Truthy(data.val) THEN Raise("FsrApiResponseException", NoDataMsg)
    ELSE Raise("FsrApiResponseException", OtherReasonMsg(res.reason))

\* variant: res.ok is not consulted
search_irn_decide_any_status(res) ==
    LET data == fsr_data(res) IN
    IF data.exc # "" THEN Raise(data.exc, <<>>)
    ELSE IF Truthy(data.val) THEN
        LET n == PyLen(data.val) IN
        IF n.exc # "" THEN Raise(n.exc, <<>>)
        ELSE IF n.val > 1 THEN Raise("FsrApiResponseException", MultipleIndividualsMsg)
        ELSE LET ref == ReferenceNumber(data.val) IN
             IF ref.exc = "" THEN ReturnValue(ref.val)
             ELSE IF CaughtByExtract(ref.exc)
                  THEN Raise("FsrApiResponseException", UnexpectedMsg("individual"))
                  ELSE Raise(ref.exc, <<>>)
    ELSE IF ~Truthy(data.val) THEN Raise("FsrApiResponseException", NoDataMsg)
    ELSE Raise("FsrApiResponseException", OtherReasonMsg(res.reason))

search_irn_decide(res) ==
    LET data == fsr_data(res) IN
    IF data.exc # "" THEN Raise(data.exc, <<>>)
    ELSE IF ok(res) /\ Truthy(data.val) THEN
        LET n == PyLen(data.val) IN
        IF n.exc # "" THEN Raise(n.exc, <<>>)
        ELSE IF n.val > 1 THEN Raise("FsrApiResponseException", MultipleIndividualsMsg)
        ELSE LET ref == ReferenceNumber(data.val) IN
             IF ref.exc = "" THEN ReturnValue(ref.val)
             ELSE IF CaughtByExtract(ref.exc)
                  THEN Raise("FsrApiResponseException", UnexpectedMsg("individual"))
                  ELSE Raise(ref.exc, <<>>)
    ELSE IF ~Truthy(data.val) THEN Raise("FsrApiResponseException", NoDataMsg)
    ELSE Raise("FsrApiResponseException", OtherReasonMsg(res.reason))

\* variant: the message of search_frn is kept
search_prn_decide_firms_message(res) ==
    LET data == fsr_data(res) IN
    IF data.exc # "" THEN Raise(data.exc, <<>>)
    ELSE IF ok(res) /\ Truthy(data.val) THEN
        LET n == PyLen(data.val) IN
        IF n.exc # "" THEN Raise(n.exc, <<>>)
        ELSE IF n.val > 1 THEN Raise("FsrApiResponseException", MultipleFirmsMsg)
        ELSE LET ref == ReferenceNumber(data.val) IN
             IF ref.exc = "" THEN ReturnValue(ref.val)
             ELSE IF CaughtByExtract(ref.exc)
                  THEN Raise("FsrApiResponseException", UnexpectedMsg("fund"))
                  ELSE Raise(ref.exc, <<>>)
    ELSE IF ~Truthy(data.val) THEN Raise("FsrApiResponseException", NoDataMsg)
    ELSE Raise("FsrApiResponseException", OtherReasonMsg(res.reason))

search_prn_decide(res) ==
    LET data == fsr_data(res) IN
    IF data.exc # "" THEN Raise(data.exc, <<>>)
    ELSE IF ok(res) /\ Truthy(data.val) THEN
        LET n == PyLen(data.val) IN
        IF n.exc # "" THEN Raise(n.exc, <<>>)
        ELSE IF n.val > 1 THEN Raise("FsrApiResponseException", MultipleFundsMsg)
        ELSE LET ref == ReferenceNumber(data.val) IN
             IF ref.exc = "" THEN ReturnValue(ref.val)
             ELSE IF CaughtByExtract(ref.exc)
                  THEN Raise("FsrApiResponseException", UnexpectedMsg("fund"))
                  ELSE Raise(ref.exc, <<>>)
    ELSE IF ~Truthy(data.val) THEN Raise("FsrApiResponseException", NoDataMsg)
    ELSE Raise("FsrApiResponseException", OtherReasonMsg(res.reason))

(***************************************************************************)
(* Request URLs.  A name, an identifier's text and a modifier are token    *)
(* sequences; urlencode quotes the tokens that are not safe in a query.    *)
(***************************************************************************)
QuotePlusToken(c) ==
    CASE c = " " -> "+"
      [] c = "/" -> "%2F"
      [] c = "&" -> "%26"
      [] c = "=" -> "%3D"
      [] c = "+" -> "%2B"
      [] OTHER   -> c

QuotePlus(s) == [i \in 1..Len(s) |-> QuotePlusToken(s[i])]

\* urlencode({'q': name, 'type': type})
urlencode(name, type) ==
    <<"q", "=">> \o QuotePlus(name) \o <<"&", "type", "=">> \o QuotePlus(<<type>>)

\* '/'.join(items)
RECURSIVE Join(_)
Join(items) ==
    IF Len(items) = 0 THEN <<>>
    ELSE IF Len(items) = 1 THEN items[1]
    ELSE items[1] \o <<"/">> \o Join(Tail(items))

\* the modifiers argument: None, or a tuple of modifier strings
NoModifiers == [given |-> FALSE, items |-> <<>>]

Modifiers(items) == [given |-> TRUE, items |-> items]

\* `if modifiers:`
ModifiersTruthy(m) == m.given /\ Len(m.items) > 0

\* variant: the base URL is taken to end with the version already
common_search_url_versioned_base(search_str) ==
    BASEURL \o <<"/", API_VERSION>> \o <<"/", API_VERSION, "/", "Search", "?">> \o search_str

common_search_url(search_str) ==
    BASEURL \o <<"/", API_VERSION, "/", "Search", "?">> \o search_str

firm_info_url(frn, modifiers) ==
    LET url == BASEURL \o <<"/", API_VERSION, "/", "Firm", "/", frn>>
    IN  IF ModifiersTruthy(modifiers) THEN url \o <<"/">> \o Join(modifiers.items) ELSE url

\* variant: the path segment is written in the singular
individual_info_url_singular(irn, modifiers) ==
    LET url == BASEURL \o <<"/", API_VERSION, "/", "Individual", "/", irn>>
    IN  IF ModifiersTruthy(modifiers) THEN url \o <<"/">> \o Join(modifiers.items) ELSE url

individual_info_url(irn, modifiers) ==
    LET url == BASEURL \o <<"/", API_VERSION, "/", "Individuals", "/", irn>>
    IN  IF ModifiersTruthy(modifiers) THEN url \o <<"/">> \o Join(modifiers.items) ELSE url

\* variant: the modifiers are appended whether or not there are any
fund_info_url_always_appends(prn, modifiers) ==
    BASEURL \o <<"/", API_VERSION, "/", "CIS", "/", prn>> \o <<"/">> \o Join(modifiers.items)

fund_info_url(prn, modifiers) ==
    LET url == BASEURL \o <<"/", API_VERSION, "/", "CIS", "/", prn>>
    IN  IF ModifiersTruthy(modifiers) THEN url \o <<"/">> \o Join(modifiers.items) ELSE url

(***************************************************************************)
(* The public detail accessors: the base handler each one calls and the    *)
(* modifiers it passes, given its second argument (req_ref or country)     *)
(* where it has one.                                                       *)
(***************************************************************************)
FirmAccessors ==
    {"get_firm", "get_firm_names", "get_firm_addresses",
     "get_firm_controlled_functions", "get_firm_individuals",
     "get_firm_permissions", "get_firm_requirements",
     "get_firm_requirement_investment_types", "get_firm_regulators",
     "get_firm_passports", "get_firm_passport_permissions",
     "get_firm_waivers", "get_firm_exclusions",
     "get_firm_disciplinary_history", "get_firm_appointed_representatives"}

IndividualAccessors ==
    {"get_individual", "get_individual_controlled_functions",
     "get_individual_disciplinary_history"}

FundAccessors == {"get_fund", "get_fund_names", "get_fund_subfunds"}

Accessors == FirmAccessors \cup IndividualAccessors \cup FundAccessors

TakesSecondArgument(a) ==
    a \in {"get_firm_requirement_investment_types", "get_firm_passport_permissions"}

\* variant: the caller's token is appended after the fixed segments
AccessorModifiers_token_last(a, arg) ==
    CASE a = "get_firm" -> NoModifiers
      [] a = "get_firm_names" -> Modifiers(<< <<"Names">> >>)
      [] a = "get_firm_addresses" -> Modifiers(<< <<"Address">> >>)
      [] a = "get_firm_controlled_functions" -> Modifiers(<< <<"CF">> >>)
      [] a = "get_firm_individuals" -> Modifiers(<< <<"Individuals">> >>)
      [] a = "get_firm_permissions" -> Modifiers(<< <<"Permissions">> >>)
      [] a = "get_firm_requirements" -> Modifiers(<< <<"Requirements">> >>)
      [] a = "get_firm_requirement_investment_types" ->
            Modifiers(<< <<"Requirements">>, <<"InvestmentTypes">>, arg >>)
      [] a = "get_firm_regulators" -> Modifiers(<< <<"Regulators">> >>)
      [] a = "get_firm_passports" -> Modifiers(<< <<"Passports">> >>)
      [] a = "get_firm_passport_permissions" ->
            Modifiers(<< <<"Passports">>, <<"Permission">>, arg >>)
      [] a = "get_firm_waivers" -> Modifiers(<< <<"Waivers">> >>)
      [] a = "get_firm_exclusions" -> Modifiers(<< <<"Exclusions">> >>)
      [] a = "get_firm_disciplinary_history" -> Modifiers(<< <<"DisciplinaryHistory">> >>)
      [] a = "get_firm_appointed_representatives" -> Modifiers(<< <<"AR">> >>)
      [] a = "get_individual" -> NoModifiers
      [] a = "get_individual_controlled_functions" -> Modifiers(<< <<"CF">> >>)
      [] a = "get_individual_disciplinary_history" -> Modifiers(<< <<"DisciplinaryHistory">> >>)
      [] a = "get_fund" -> NoModifiers
      [] a = "get_fund_names" -> Modifiers(<< <<"Names">> >>)
      [] a = "get_fund_subfunds" -> Modifiers(<< <<"Subfund">> >>)

AccessorModifiers(a, arg) ==
    CASE a = "get_firm" -> NoModifiers
      [] a = "get_firm_names" -> Modifiers(<< <<"Names">> >>)
      [] a = "get_firm_addresses" -> Modifiers(<< <<"Address">> >>)
      [] a = "get_firm_controlled_functions" -> Modifiers(<< <<"CF">> >>)
      [] a = "get_firm_individuals" -> Modifiers(<< <<"Individuals">> >>)
      [] a = "get_firm_permissions" -> Modifiers(<< <<"Permissions">> >>)
      [] a = "get_firm_requirements" -> Modifiers(<< <<"Requirements">> >>)
      [] a = "get_firm_requirement_investment_types" ->
            Modifiers(<< <<"Requirements">>, arg, <<"InvestmentTypes">> >>)
      [] a = "get_firm_regulators" -> Modifiers(<< <<"Regulators">> >>)
      [] a = "get_firm_passports" -> Modifiers(<< <<"Passports">> >>)
      [] a = "get_firm_passport_permissions" ->
            Modifiers(<< <<"Passports">>, arg, <<"Permission">> >>)
      [] a = "get_firm_waivers" -> Modifiers(<< <<"Waivers">> >>)
      [] a = "get_firm_exclusions" -> Modifiers(<< <<"Exclusions">> >>)
      [] a = "get_firm_disciplinary_history" -> Modifiers(<< <<"DisciplinaryHistory">> >>)
      [] a = "get_firm_appointed_representatives" -> Modifiers(<< <<"AR">> >>)
      [] a = "get_individual" -> NoModifiers
      [] a = "get_individual_controlled_functions" -> Modifiers(<< <<"CF">> >>)
      [] a = "get_individual_disciplinary_history" -> Modifiers(<< <<"DisciplinaryHistory">> >>)
      [] a = "get_fund" -> NoModifiers
      [] a = "get_fund_names" -> Modifiers(<< <<"Names">> >>)
      [] a = "get_fund_subfunds" -> Modifiers(<< <<"Subfund">> >>)

AccessorUrl(a, id, arg) ==
    CASE a \in FirmAccessors -> firm_info_url(id, AccessorModifiers(a, arg))
      [] a \in IndividualAccessors -> individual_info_url(id, AccessorModifiers(a, arg))
      [] a \in FundAccessors -> fund_info_url(id, AccessorModifiers(a, arg))

(***************************************************************************)
(* The try blocks around self.api_session.get(url).  got is what the       *)
(* transport did: it raised an exception of class got.exc, or (got.exc     *)
(* empty) it returned the response got.res.                                *)
(***************************************************************************)
Returned(res) == [exc |-> "", res |-> res]

Raised(e) == [exc |-> e, res |-> NoResponse]

\* FsrApiResponse.__init__: takes over every attribute of the response
FsrApiResponse(response) ==
    [status |-> response.status, reason |-> response.reason, body |-> response.body]

common_search_finish(got) ==
    IF got.exc = "" THEN ReturnResponse(FsrApiResponse(got.res))
    ELSE IF IsSubclass(got.exc, "RequestException")
         THEN RaiseFrom("FsrApiRequestException", got.exc)
         ELSE Raise(got.exc, <<>>)

\* variant: a response that is not ok is turned into a failure
firm_info_finish_checks_status(got) ==
    IF got.exc = "" THEN
        IF ok(got.res) THEN ReturnResponse(FsrApiResponse(got.res))
        ELSE Raise("FsrApiResponseException", <<got.res.reason>>)
    ELSE IF IsSubclass(got.exc, "RequestException")
         THEN RaiseFrom("FsrApiRequestException", got.exc)
         ELSE Raise(got.exc, <<>>)

firm_info_finish(got) ==
    IF got.exc = "" THEN ReturnResponse(FsrApiResponse(got.res))
    ELSE IF IsSubclass(got.exc, "RequestException")
         THEN RaiseFrom("FsrApiRequestException", got.exc)
         ELSE Raise(got.exc, <<>>)

individual_info_finish(got) ==
    IF got.exc = "" THEN ReturnResponse(FsrApiResponse(got.res))
    ELSE IF IsSubclass(got.exc, "RequestException")
         THEN RaiseFrom("FsrApiRequestException", got.exc)
         ELSE Raise(got.exc, <<>>)

\* variant: no except clause around the GET
fund_info_finish_no_except(got) ==
    IF got.exc = "" THEN ReturnResponse(FsrApiResponse(got.res))
    ELSE Raise(got.exc, <<>>)

fund_info_finish(got) ==
    IF got.exc = "" THEN ReturnResponse(FsrApiResponse(got.res))
    ELSE IF IsSubclass(got.exc, "RequestException")
         THEN RaiseFrom("FsrApiRequestException", got.exc)
         ELSE Raise(got.exc, <<>>)

\* search_*: `except FsrApiRequestException: raise`, then the decision
search_frn_finish(got) ==
    LET res == common_search_finish(got)
    IN  IF res.kind = "raise" THEN res ELSE search_frn_decide(res.response)

search_irn_finish(got) ==
    LET res == common_search_finish(got)
    IN  IF res.kind = "raise" THEN res ELSE search_irn_decide(res.response)

search_prn_finish(got) ==
    LET res == common_search_finish(got)
    IN  IF res.kind = "raise" THEN res ELSE search_prn_decide(res.response)

SearchOps == {"search_frn", "search_irn", "search_prn"}

BaseHandlers == {"_firm_info", "_individual_info", "_fund_info"}

Finish(name, got) ==
    CASE name = "common_search" -> common_search_finish(got)
      [] name = "search_frn" -> search_frn_finish(got)
      [] name = "search_irn" -> search_irn_finish(got)
      [] name = "search_prn" -> search_prn_finish(got)
      [] name \in FirmAccessors \cup {"_firm_info"} -> firm_info_finish(got)
      [] name \in IndividualAccessors \cup {"_individual_info"} -> individual_info_finish(got)
      [] name \in FundAccessors \cup {"_fund_info"} -> fund_info_finish(got)

(***************************************************************************)
(* What the callers pass and what the remote side answers.                 *)
(***************************************************************************)
Credentials == {<<"dev@example.org", "key-1">>, <<"ops@example.org", "key-2">>}

Names == {<<"direct", " ", "line">>, <<"R", "&", "D">>}

TypeFilters == {"firm", "individual", "fund", "company"}

Ids == {"113849", "1234567890"}

SecondArguments == {<<"OR-0262545">>, <<"Gibraltar">>}

ModifierStrings == {<<"Names">>, <<"/", "Names", "/">>, <<>>}

SeqsUpTo(S, n) == UNION {[1..k -> S] : k \in 0..n}

ModifierArguments == {NoModifiers} \cup {Modifiers(m) : m \in SeqsUpTo(ModifierStrings, MaxModifiers)}

TransportErrors == {"RequestException", "ConnectionError", "Timeout"}

StatusLines ==
    {<<200, "OK">>, <<304, "Not Modified">>, <<404, "Not Found">>,
     <<500, "Internal Server Error">>}

Record(ref) == JObj(("Reference Number" :> ref) @@ ("Name" :> JStr("Hiscox")))

RecordWithoutReference == JObj("not a Reference Number" :> JNull)

Entries ==
    {Record(JStr("311492")), Record(JNull), RecordWithoutReference, JStr("311492")}

\* further lists, of entries that occur in no other combination
OtherLists ==
    {<<Record(JStr(""))>>, <<JNum(311492)>>, <<JNull>>,
     <<Record(JStr("311492")), Record(JStr("202684"))>>}

OtherData ==
    {JNull, JObj(<<>>), JStr(""), JNum(0), JBool(FALSE), JNum(7), JBool(TRUE),
     JStr("x"), JStr("311492"), JObj("Reference Number" :> JStr("311492")),
     Record(JStr("311492"))}

DataValues ==
    {JList(l) : l \in SeqsUpTo(Entries, MaxRecords) \cup OtherLists} \cup OtherData

Envelope(data) ==
    JObj(("Status" :> JStr("FSR-API-04-01-00")) @@ ("Message" :> JStr("Ok. Search successful"))
         @@ ("ResultInfo" :> JObj("page" :> JStr("1"))) @@ ("Data" :> data))

EnvelopeWithoutData ==
    JObj(("Status" :> JStr("FSR-API-04-01-11")) @@ ("Message" :> JStr("No search result found")))

Bodies ==
    {[valid |-> TRUE, json |-> Envelope(d)] : d \in DataValues}
    \cup {[valid |-> TRUE, json |-> EnvelopeWithoutData],
          [valid |-> TRUE, json |-> JObj(<<>>)],
          [valid |-> TRUE, json |-> JList(<<>>)],
          [valid |-> FALSE, json |-> JNull]}

Responses ==
    {[status |-> l[1], reason |-> l[2], body |-> b] : l \in StatusLines, b \in Bodies}

\* a few of the responses, one of each kind of payload
FewBodies ==
    {[valid |-> TRUE, json |-> Envelope(JList(<<Record(JStr("311492"))>>))],
     [valid |-> TRUE,
      json |-> Envelope(JList(<<Record(JStr("311492")), Record(JStr("202684"))>>))],
     [valid |-> TRUE, json |-> Envelope(Record(JStr("311492")))],
     [valid |-> TRUE, json |-> EnvelopeWithoutData],
     [valid |-> FALSE, json |-> JNull]}

FewResponses ==
    {[status |-> l[1], reason |-> l[2], body |-> b] :
        l \in {<<200, "OK">>, <<404, "Not Found">>}, b \in FewBodies}

(***************************************************************************)
(* State: the session (credentials and headers), and the call in progress: *)
(* pc is "idle", "requesting" (the GET is issued and not yet answered) or  *)
(* "done" (the operation has returned or raised outcome); got is what the   *)
(* transport did with the call's GET, gets counts the GETs the call has    *)
(* issued, and read is the envelope property the caller read last from a   *)
(* returned response.  earlier is a search call the caller has kept (its   *)
(* name, its transport result and its outcome), and threads holds the      *)
(* calls of the host's threads where the client is used from several.      *)
(***************************************************************************)
VARIABLES api_username, api_key, headers, pc, op, request, got, outcome, gets, read,
          earlier, threads

vars == <<api_username, api_key, headers, pc, op, request, got, outcome, gets, read,
          earlier, threads>>

session == <<api_username, api_key, headers>>

NoOp == [name |-> "", text |-> <<>>, id |-> "", modifiers |-> NoModifiers]

NoRequest == [url |-> <<>>, headers |-> <<>>]

NotYet == [exc |-> "pending", res |-> NoResponse]

NoRead == [field |-> "", result |-> Val(JNull)]

NoEarlier == [name |-> "", text |-> <<>>, got |-> NotYet, outcome |-> NoOutcome]

Threads == {1, 2}

\* a thread that has not called the client
IdleThread ==
    [pc |-> "idle", op |-> NoOp, request |-> NoRequest, got |-> NotYet, outcome |-> NoOutcome]

NoThreads == [t \in Threads |-> IdleThread]

\* FsrApiSession.__init__
SessionHeaders(username, key) ==
    ("ACCEPT" :> "application/json") @@ ("X-AUTH-EMAIL" :> username) @@ ("X-AUTH-KEY" :> key)

Init ==
    /\ \E c \in Credentials :
          /\ api_username = c[1]
          /\ api_key = c[2]
          /\ headers = SessionHeaders(c[1], c[2])
    /\ pc = "idle"
    /\ op = NoOp
    /\ request = NoRequest
    /\ got = NotYet
    /\ outcome = NoOutcome
    /\ gets = 0
    /\ read = NoRead
    /\ earlier = NoEarlier
    /\ threads = NoThreads

\* variant: the GET is sent outside the session, without its credentials
Get_outside_session(url) ==
    /\ request' = [url |-> url, headers |-> ("ACCEPT" :> "application/json")]
    /\ pc' = "requesting"
    /\ got' = NotYet
    /\ outcome' = NoOutcome
    /\ gets' = gets + 1
    /\ UNCHANGED <<session, read, earlier, threads>>

\* self.api_session.get(url): the GET goes out with the session's headers
Get(url) ==
    /\ request' = [url |-> url, headers |-> headers]
    /\ pc' = "requesting"
    /\ got' = NotYet
    /\ outcome' = NoOutcome
    /\ gets' = gets + 1
    /\ UNCHANGED <<session, read, earlier, threads>>

\* variant: a type filter other than firm, individual, fund is refused
common_search_validating(search_str) ==
    /\ pc = "idle"
    /\ op' = [NoOp EXCEPT !.name = "common_search", !.text = search_str]
    /\ IF search_str[Len(search_str)] \in {"firm", "individual", "fund"}
       THEN Get(common_search_url(search_str))
       ELSE /\ pc' = "done"
            /\ outcome' = Raise("ValueError", <<"unknown", "type">>)
            /\ UNCHANGED <<session, request, got, gets, read, earlier, threads>>

common_search(search_str) ==
    /\ pc = "idle"
    /\ op' = [NoOp EXCEPT !.name = "common_search", !.text = search_str]
    /\ Get(common_search_url(search_str))

search_frn(firm_name) ==
    /\ pc = "idle"
    /\ op' = [NoOp EXCEPT !.name = "search_frn", !.text = firm_name]
    /\ Get(common_search_url(urlencode(firm_name, "firm")))

search_irn(individual_name) ==
    /\ pc = "idle"
    /\ op' = [NoOp EXCEPT !.name = "search_irn", !.text = individual_name]
    /\ Get(common_search_url(urlencode(individual_name, "individual")))

search_prn(fund_name) ==
    /\ pc = "idle"
    /\ op' = [NoOp EXCEPT !.name = "search_prn", !.text = fund_name]
    /\ Get(common_search_url(urlencode(fund_name, "fund")))

firm_info(frn, modifiers) ==
    /\ pc = "idle"
    /\ op' = [NoOp EXCEPT !.name = "_firm_info", !.id = frn, !.modifiers = modifiers]
    /\ Get(firm_info_url(frn, modifiers))

individual_info(irn, modifiers) ==
    /\ pc = "idle"
    /\ op' = [NoOp EXCEPT !.name = "_individual_info", !.id = irn, !.modifiers = modifiers]
    /\ Get(individual_info_url(irn, modifiers))

fund_info(prn, modifiers) ==
    /\ pc = "idle"
    /\ op' = [NoOp EXCEPT !.name = "_fund_info", !.id = prn, !.modifiers = modifiers]
    /\ Get(fund_info_url(prn, modifiers))

\* the public get_firm*, get_individual* and get_fund* methods
get_detail(a, id, arg) ==
    /\ pc = "idle"
    /\ op' = [NoOp EXCEPT !.name = a, !.id = id, !.text = arg,
                          !.modifiers = AccessorModifiers(a, arg)]
    /\ Get(AccessorUrl(a, id, arg))

\* variant: the GET is issued again after a transport failure
GetRaises_retry(e) ==
    /\ pc = "requesting"
    /\ IF gets < 2
       THEN /\ gets' = gets + 1
            /\ UNCHANGED <<pc, got, outcome>>
       ELSE /\ got' = Raised(e)
            /\ outcome' = Finish(op.name, Raised(e))
            /\ pc' = "done"
            /\ UNCHANGED gets
    /\ UNCHANGED <<session, op, request, read, earlier, threads>>

\* the transport raises: the operation ends in its except clause
GetRaises(e) ==
    /\ pc = "requesting"
    /\ got' = Raised(e)
    /\ outcome' = Finish(op.name, Raised(e))
    /\ pc' = "done"
    /\ UNCHANGED <<session, op, request, gets, read, earlier, threads>>

\* variant: the client refuses to resolve again a name it has resolved
GetReturns_refuses_repeat(res) ==
    /\ pc = "requesting"
    /\ got' = Returned(res)
    /\ outcome' = IF earlier.name = op.name /\ earlier.text = op.text
                  THEN Raise("FsrApiResponseException", <<"Already", "resolved">>)
                  ELSE Finish(op.name, Returned(res))
    /\ pc' = "done"
    /\ UNCHANGED <<session, op, request, gets, read, earlier, threads>>

\* the transport returns a response: the operation runs to its end
GetReturns(res) ==
    /\ pc = "requesting"
    /\ got' = Returned(res)
    /\ outcome' = Finish(op.name, Returned(res))
    /\ pc' = "done"
    /\ UNCHANGED <<session, op, request, gets, read, earlier, threads>>

\* the caller has the outcome and may call again
Resume ==
    /\ pc = "done"
    /\ pc' = "idle"
    /\ op' = NoOp
    /\ request' = NoRequest
    /\ got' = NotYet
    /\ outcome' = NoOutcome
    /\ gets' = 0
    /\ UNCHANGED <<session, read, earlier, threads>>

Next ==
    \/ \E n \in Names, ty \in TypeFilters : common_search(urlencode(n, ty))
    \/ \E n \in Names : search_frn(n)
    \/ \E n \in Names : search_irn(n)
    \/ \E n \in Names : search_prn(n)
    \/ \E id \in Ids, m \in ModifierArguments : firm_info(id, m)
    \/ \E id \in Ids, m \in ModifierArguments : individual_info(id, m)
    \/ \E id \in Ids, m \in ModifierArguments : fund_info(id, m)
    \/ \E a \in Accessors, id \in Ids, arg \in SecondArguments \cup {<<>>} :
          /\ TakesSecondArgument(a) <=> arg # <<>>
          /\ get_detail(a, id, arg)
    \/ \E e \in TransportErrors : GetRaises(e)
    \/ \E res \in Responses : GetReturns(res)
    \/ Resume

Spec == Init /\ [][Next]_vars

(***************************************************************************)
(* The envelope properties, read by a caller that holds the response of a  *)
(* common_search call: the specification starts where such a call has     *)
(* returned, for every response, and each step reads one property.         *)
(***************************************************************************)
InitRead ==
    /\ \E c \in Credentials :
          /\ api_username = c[1]
          /\ api_key = c[2]
          /\ headers = SessionHeaders(c[1], c[2])
    /\ \E n \in Names, res \in Responses :
          /\ op = [NoOp EXCEPT !.name = "common_search", !.text = urlencode(n, "firm")]
          /\ request = [url |-> common_search_url(urlencode(n, "firm")), headers |-> headers]
          /\ got = Returned(res)
          /\ outcome = common_search_finish(Returned(res))
    /\ pc = "done"
    /\ gets = 1
    /\ read = NoRead
    /\ earlier = NoEarlier
    /\ threads = NoThreads

HoldsResponse == pc = "done" /\ outcome.kind = "return" /\ op.name \notin SearchOps

read_fsr_status ==
    /\ HoldsResponse
    /\ read' = [field |-> "Status", result |-> fsr_status(outcome.response)]
    /\ UNCHANGED <<session, pc, op, request, got, outcome, gets, earlier, threads>>

read_fsr_resultinfo ==
    /\ HoldsResponse
    /\ read' = [field |-> "ResultInfo", result |-> fsr_resultinfo(outcome.response)]
    /\ UNCHANGED <<session, pc, op, request, got, outcome, gets, earlier, threads>>

read_fsr_message ==
    /\ HoldsResponse
    /\ read' = [field |-> "Message", result |-> fsr_message(outcome.response)]
    /\ UNCHANGED <<session, pc, op, request, got, outcome, gets, earlier, threads>>

read_fsr_data ==
    /\ HoldsResponse
    /\ read' = [field |-> "Data", result |-> fsr_data(outcome.response)]
    /\ UNCHANGED <<session, pc, op, request, got, outcome, gets, earlier, threads>>

NextRead ==
    \/ read_fsr_status
    \/ read_fsr_resultinfo
    \/ read_fsr_message
    \/ read_fsr_data

SpecRead == InitRead /\ [][NextRead]_vars

(***************************************************************************)
(* Progress.  The client calls self.api_session.get(url) without a         *)
(* timeout, so nothing obliges the transport to answer or to give up: the  *)
(* steps GetRaises and GetReturns happen when the transport makes them     *)
(* happen.  What is certain is that the caller goes on once a call has     *)
(* ended.                                                                  *)
(***************************************************************************)
SpecLive == Init /\ [][Next]_vars /\ WF_vars(Resume)

(***************************************************************************)
(* Repeated resolution: the caller keeps the result of a search call and   *)
(* calls again, with other operations before and in between.               *)
(***************************************************************************)
\* the caller keeps what the search call met and what it gave
Remember ==
    /\ pc = "done"
    /\ op.name \in SearchOps
    /\ earlier' = [name |-> op.name, text |-> op.text, got |-> got, outcome |-> outcome]
    /\ pc' = "idle"
    /\ op' = NoOp
    /\ request' = NoRequest
    /\ got' = NotYet
    /\ outcome' = NoOutcome
    /\ gets' = 0
    /\ UNCHANGED <<session, read, threads>>

NextTwice ==
    \/ \E n \in Names : common_search(urlencode(n, "firm"))
    \/ \E n \in Names : search_frn(n)
    \/ \E n \in Names : search_irn(n)
    \/ \E n \in Names : search_prn(n)
    \/ \E id \in Ids : firm_info(id, NoModifiers)
    \/ \E id \in Ids : get_detail("get_fund_names", id, <<>>)
    \/ \E e \in TransportErrors : GetRaises(e)
    \/ \E res \in FewResponses : GetReturns(res)
    \/ Remember
    \/ Resume

SpecTwice == Init /\ [][NextTwice]_vars

(***************************************************************************)
(* The client used from two threads of the host: each thread makes one     *)
(* call, and the steps of the two calls interleave in any order.  A call   *)
(* keeps its URL and its response in locals of the method; the session     *)
(* and its headers are what the threads share.                             *)
(***************************************************************************)
\* variant: the URL is kept in an attribute of the client, which the threads share
ThreadGet_shared_url(t, o, url) ==
    /\ threads[t].pc = "idle"
    /\ threads' = [u \in Threads |->
                     IF u = t
                     THEN [pc |-> "requesting", op |-> o,
                           request |-> [url |-> url, headers |-> headers],
                           got |-> NotYet, outcome |-> NoOutcome]
                     ELSE IF threads[u].pc = "requesting"
                          THEN [threads[u] EXCEPT !.request.url = url]
                          ELSE threads[u]]
    /\ UNCHANGED <<session, pc, op, request, got, outcome, gets, read, earlier>>

\* thread t calls operation o, which issues its GET to url
ThreadGet(t, o, url) ==
    /\ threads[t].pc = "idle"
    /\ threads' = [threads EXCEPT ![t] =
                     [pc |-> "requesting", op |-> o,
                      request |-> [url |-> url, headers |-> headers],
                      got |-> NotYet, outcome |-> NoOutcome]]
    /\ UNCHANGED <<session, pc, op, request, got, outcome, gets, read, earlier>>

thread_common_search(t, search_str) ==
    ThreadGet(t, [NoOp EXCEPT !.name = "common_search", !.text = search_str],
              common_search_url(search_str))

thread_search_frn(t, firm_name) ==
    ThreadGet(t, [NoOp EXCEPT !.name = "search_frn", !.text = firm_name],
              common_search_url(urlencode(firm_name, "firm")))

thread_search_irn(t, individual_name) ==
    ThreadGet(t, [NoOp EXCEPT !.name = "search_irn", !.text = individual_name],
              common_search_url(urlencode(individual_name, "individual")))

thread_search_prn(t, fund_name) ==
    ThreadGet(t, [NoOp EXCEPT !.name = "search_prn", !.text = fund_name],
              common_search_url(urlencode(fund_name, "fund")))

thread_get_detail(t, a, id, arg) ==
    ThreadGet(t, [NoOp EXCEPT !.name = a, !.id = id, !.text = arg,
                              !.modifiers = AccessorModifiers(a, arg)],
              AccessorUrl(a, id, arg))

\* the transport raises in thread t's call
thread_GetRaises(t, e) ==
    /\ threads[t].pc = "requesting"
    /\ threads' = [threads EXCEPT ![t].pc = "done", ![t].got = Raised(e),
                                  ![t].outcome = Finish(threads[t].op.name, Raised(e))]
    /\ UNCHANGED <<session, pc, op, request, got, outcome, gets, read, earlier>>

\* the transport returns a response to thread t's call
thread_GetReturns(t, res) ==
    /\ threads[t].pc = "requesting"
    /\ threads' = [threads EXCEPT ![t].pc = "done", ![t].got = Returned(res),
                                  ![t].outcome = Finish(threads[t].op.name, Returned(res))]
    /\ UNCHANGED <<session, pc, op, request, got, outcome, gets, read, earlier>>

ThreadAccessors ==
    {"get_firm_names", "get_individual", "get_firm_passport_permissions"}

NextThreads ==
    \E t \in Threads :
        \/ \E n \in Names : thread_common_search(t, urlencode(n, "firm"))
        \/ \E n \in Names : thread_search_frn(t, n)
        \/ \E n \in Names : thread_search_irn(t, n)
        \/ \E n \in Names : thread_search_prn(t, n)
        \/ \E a \in ThreadAccessors, id \in Ids, arg \in {<<"Gibraltar">>, <<>>} :
              /\ TakesSecondArgument(a) <=> arg # <<>>
              /\ thread_get_detail(t, a, id, arg)
        \/ \E e \in TransportErrors : thread_GetRaises(t, e)
        \/ \E res \in FewResponses : thread_GetReturns(t, res)

SpecThreads == Init /\ [][NextThreads]_vars

(***************************************************************************)
(* Vocabulary of the properties, read off the state directly.              *)
(***************************************************************************)
SearchDone == pc = "done" /\ op.name \in SearchOps

Delivered == pc = "done" /\ got.exc = ""

\* the body is a JSON object (the envelope)
HasEnvelope(res) == res.body.valid /\ res.body.json.t = "obj"

HasDataKey(res) == HasEnvelope(res) /\ "Data" \in DOMAIN res.body.json.v

DataOf(res) == res.body.json.v["Data"]

\* the payload is a list of exactly n entries / of more than one entry
IsListOf(res, n) == HasDataKey(res) /\ DataOf(res).t = "list" /\ Len(DataOf(res).v) = n

IsListOfSeveral(res) == HasDataKey(res) /\ DataOf(res).t = "list" /\ Len(DataOf(res).v) > 1

IsRecordWithReference(e) == e.t = "obj" /\ "Reference Number" \in DOMAIN e.v

\* the 'Data' key is missing, null, or an empty list
NoPayload(res) ==
    HasEnvelope(res) /\ (HasDataKey(res) => DataOf(res) \in {JNull, JList(<<>>)})

\* a 2xx status
Successful(res) == res.status >= 200 /\ res.status < 300

Contains(msg, word) == \E i \in 1..Len(msg) : msg[i] = word

ContainsPhrase(msg, w1, w2, w3) ==
    \E i \in 1..(Len(msg) - 2) : msg[i] = w1 /\ msg[i + 1] = w2 /\ msg[i + 2] = w3

StartsWith(msg, w1, w2) == Len(msg) >= 2 /\ msg[1] = w1 /\ msg[2] = w2

RaisedResponseException == outcome.kind = "raise" /\ outcome.exc = "FsrApiResponseException"

\* the four failure outcomes of a search and its success
IsNoMatch == RaisedResponseException /\ StartsWith(outcome.msg, "No", "data")

IsAmbiguousMatch(noun) ==
    RaisedResponseException /\ StartsWith(outcome.msg, "Multiple", noun)

IsMalformedResponse == RaisedResponseException /\ StartsWith(outcome.msg, "Unexpected", "response")

IsRequestFailure == outcome.kind = "raise" /\ outcome.exc = "FsrApiRequestException"

IsSuccess == outcome.kind = "return"

PluralNoun(name) ==
    CASE name = "search_frn" -> "firms"
      [] name = "search_irn" -> "individuals"
      [] name = "search_prn" -> "funds"

(***************************************************************************)
(* C1: when a search's response is successful and its payload is a list    *)
(* of exactly one record that has a 'Reference Number' field, search_frn,  *)
(* search_irn and search_prn return the value of that field.               *)
(***************************************************************************)
C1_ReturnsTheReferenceNumber ==
    (/\ SearchDone
     /\ Delivered
     /\ Successful(got.res)
     /\ IsListOf(got.res, 1)
     /\ IsRecordWithReference(DataOf(got.res).v[1]))
    => /\ outcome.kind = "return"
       /\ outcome.value = DataOf(got.res).v[1].v["Reference Number"]

C1_Witness ==
    /\ SearchDone
    /\ op.name = "search_irn"
    /\ Delivered
    /\ got.res.status = 200
    /\ IsListOf(got.res, 1)
    /\ DataOf(got.res).v[1] = Record(JStr("311492"))
    /\ outcome.kind = "return"
    /\ outcome.value = JStr("311492")

(***************************************************************************)
(* C2: whenever a search returns, the value returned is a non-empty        *)
(* string, whatever the matched record's 'Reference Number' holds.         *)
(* The code returns the field as it is: None for null, '' for ''.          *)
(***************************************************************************)
C2_ReturnsNonEmptyString ==
    (SearchDone /\ outcome.kind = "return")
    => (outcome.value.t = "str" /\ outcome.value.v # "")

(***************************************************************************)
(* C3: when the successful response's payload is a list of more than one   *)
(* record, the search fails with AmbiguousMatch, an                        *)
(* FsrApiResponseException whose message names the resource type searched  *)
(* (firms, individuals, funds) and suggests the common search endpoint.    *)
(***************************************************************************)
C3_SeveralRecordsAreAmbiguous ==
    (SearchDone /\ Delivered /\ Successful(got.res) /\ IsListOfSeveral(got.res))
    => /\ IsAmbiguousMatch(PluralNoun(op.name))
       /\ \A other \in {"firms", "individuals", "funds"} \ {PluralNoun(op.name)} :
             ~Contains(outcome.msg, other)
       /\ ContainsPhrase(outcome.msg, "common", "search", "endpoint")

C3_Witness ==
    /\ SearchDone
    /\ op.name = "search_prn"
    /\ Delivered
    /\ got.res.status = 200
    /\ IsListOf(got.res, 2)
    /\ outcome.kind = "raise"
    /\ Contains(outcome.msg, "funds")

(***************************************************************************)
(* C4: a search never chooses among several matches: it returns a value    *)
(* only when the payload holds exactly one record, and with two or more    *)
(* records it returns nothing.                                             *)
(***************************************************************************)
C4_NeverPicksAmongSeveral ==
    /\ (SearchDone /\ outcome.kind = "return") => (Delivered /\ IsListOf(got.res, 1))
    /\ (SearchDone /\ Delivered /\ IsListOfSeveral(got.res)) => outcome.kind = "raise"

C4_Witness ==
    /\ SearchDone
    /\ op.name = "search_frn"
    /\ Delivered
    /\ got.res.status = 200
    /\ IsListOf(got.res, 2)
    /\ DataOf(got.res).v[1] = Record(JStr("311492"))
    /\ DataOf(got.res).v[2] = Record(JStr("202684"))
    /\ outcome.kind = "raise"

IsRegisterRecord(e) ==
    /\ IsRecordWithReference(e)
    /\ e.v["Reference Number"].t = "str"
    /\ e.v["Reference Number"].v # ""

RegisterPayload(res) ==
    \/ NoPayload(res)
    \/ /\ HasDataKey(res)
       /\ DataOf(res).t = "list"
       /\ \A i \in 1..Len(DataOf(res).v) : IsRegisterRecord(DataOf(res).v[i])

C6_Original_NotSuccessfulIsNoMatch ==
    (SearchDone /\ Delivered /\ RegisterPayload(got.res) /\ ~Successful(got.res))
    => IsNoMatch

\* 'Data' is missing or holds a value Python takes for false
EmptyPayload(res) ==
    HasEnvelope(res) /\
        (HasDataKey(res) =>
            DataOf(res) \in {JNull, JList(<<>>), JObj(<<>>), JStr(""), JNum(0), JBool(FALSE)})

ClientOrServerError(res) == res.status >= 400 /\ res.status < 600

IsOtherReason(reason) ==
    /\ RaisedResponseException
    /\ ContainsPhrase(outcome.msg, "request", "failed", "for")
    /\ outcome.msg[Len(outcome.msg)] = reason

(***************************************************************************)
(* C6, amended: when the search response has a 4xx or 5xx status and its   *)
(* body is a JSON object, the search fails with an                         *)
(* FsrApiResponseException: NoMatch when the body carries no payload, and  *)
(* the failure 'search request failed for some other reason: <reason>'     *)
(* when it carries one.                                                    *)
(***************************************************************************)
C6_ErrorStatusFails ==
    (SearchDone /\ Delivered /\ HasEnvelope(got.res) /\ ClientOrServerError(got.res))
    => IF EmptyPayload(got.res) THEN IsNoMatch ELSE IsOtherReason(got.res.reason)

C6_Witness ==
    /\ SearchDone
    /\ op.name = "search_irn"
    /\ Delivered
    /\ got.res.status = 404
    /\ IsListOf(got.res, 1)
    /\ IsRecordWithReference(DataOf(got.res).v[1])
    /\ IsOtherReason("Not Found")

(***************************************************************************)
(* C7: when the successful payload has exactly one entry and that entry    *)
(* lacks the 'Reference Number' field or is not a record at all (a string, *)
(* a number, null), the search fails with MalformedResponse, the           *)
(* FsrApiResponseException 'Unexpected response data structure ...'.       *)
(* The except clause names KeyError and IndexError only, so the TypeError  *)
(* of indexing a non-record entry leaves the method.                       *)
(***************************************************************************)
C7_BadSingleEntryIsMalformed ==
    (/\ SearchDone
     /\ Delivered
     /\ Successful(got.res)
     /\ IsListOf(got.res, 1)
     /\ ~IsRecordWithReference(DataOf(got.res).v[1]))
    => IsMalformedResponse

(***************************************************************************)
(* C8: every search call ends in exactly one of Success(ref), NoMatch,     *)
(* AmbiguousMatch, MalformedResponse, RequestFailure, whatever the         *)
(* transport, the status and the payload; nothing but                      *)
(* FsrApiRequestException or FsrApiResponseException leaves the call.      *)
(***************************************************************************)
C8_FiveOutcomes ==
    /\ pc \in {"idle", "requesting", "done"}
    /\ (SearchDone /\ (Delivered => HasEnvelope(got.res))) =>
          \/ IsSuccess
          \/ IsNoMatch
          \/ IsAmbiguousMatch(PluralNoun(op.name))
          \/ IsMalformedResponse
          \/ IsRequestFailure

(***************************************************************************)
(* C9: a transport failure during any operation surfaces as                *)
(* FsrApiRequestException carrying the underlying exception, never as      *)
(* FsrApiResponseException, and neither of the two classes is a subclass   *)
(* of the other.                                                           *)
(***************************************************************************)
C9_TransportFailureIsRequestException ==
    /\ (pc = "done" /\ got.exc # "") =>
          /\ outcome.kind = "raise"
          /\ outcome.exc = "FsrApiRequestException"
          /\ outcome.cause = got.exc
          /\ ~IsSubclass(outcome.exc, "FsrApiResponseException")
    /\ ~IsSubclass("FsrApiRequestException", "FsrApiResponseException")
    /\ ~IsSubclass("FsrApiResponseException", "FsrApiRequestException")

C9_Witness ==
    /\ pc = "done"
    /\ op.name = "get_fund_subfunds"
    /\ got.exc = "Timeout"
    /\ outcome.exc = "FsrApiRequestException"
    /\ outcome.cause = "Timeout"

(***************************************************************************)
(* C10: common_search and the detail accessors return the response         *)
(* whenever the transport delivers one, for every status and with or       *)
(* without a payload, and never raise FsrApiResponseException.             *)
(***************************************************************************)
C10_ResponsesAreReturned ==
    (pc = "done" /\ op.name \notin SearchOps) =>
        /\ got.exc = "" => (outcome.kind = "return" /\ outcome.response = got.res)
        /\ outcome.exc # "FsrApiResponseException"

C10_Witness ==
    /\ pc = "done"
    /\ op.name = "get_firm_names"
    /\ got.exc = ""
    /\ got.res.status = 404
    /\ got.res.body.json = EnvelopeWithoutData
    /\ outcome.kind = "return"
    /\ outcome.response = got.res

(***************************************************************************)
(* C11: nothing is retried: every invocation of a client operation issues  *)
(* exactly one GET, and once the transport has failed or the operation     *)
(* has ended in a failure the invocation issues no further GET.            *)
(***************************************************************************)
C11_OneGetPerInvocation ==
    /\ pc = "idle" => gets = 0
    /\ pc \in {"requesting", "done"} => gets = 1

C11_Witness ==
    /\ pc = "done"
    /\ op.name = "search_frn"
    /\ got.exc = "ConnectionError"
    /\ outcome.kind = "raise"
    /\ gets = 1

(***************************************************************************)
(* Vocabulary for the request URLs.                                        *)
(***************************************************************************)
DetailOps == BaseHandlers \cup Accessors

Issued == pc \in {"requesting", "done"}

\* a modifier without its leading and trailing forward slashes
RECURSIVE StripLeft(_)
StripLeft(m) == IF Len(m) > 0 /\ m[1] = "/" THEN StripLeft(Tail(m)) ELSE m

RECURSIVE StripRight(_)
StripRight(m) ==
    IF Len(m) > 0 /\ m[Len(m)] = "/" THEN StripRight(SubSeq(m, 1, Len(m) - 1)) ELSE m

Stripped(modifiers) ==
    [modifiers EXCEPT !.items = [i \in 1..Len(modifiers.items) |->
                                    StripRight(StripLeft(modifiers.items[i]))]]

\* the path segment of the resource an operation asks for
SegmentOf(name) ==
    CASE name \in FirmAccessors \cup {"_firm_info"} -> "Firm"
      [] name \in IndividualAccessors \cup {"_individual_info"} -> "Individuals"
      [] name \in FundAccessors \cup {"_fund_info"} -> "CIS"

\* each modifier in turn, a separator before each
RECURSIVE EachAfterSeparator(_)
EachAfterSeparator(items) ==
    IF Len(items) = 0 THEN <<>>
    ELSE <<"/">> \o items[1] \o EachAfterSeparator(Tail(items))

DetailUrl(segment, id, modifiers) ==
    <<"https:", "/", "/", "register.fca.org.uk", "/", "services", "/", "V0.1", "/",
      segment, "/", id>> \o EachAfterSeparator(modifiers.items)

\* the URL from the first separator after the host on
PathOf(url) == SubSeq(url, 5, Len(url))

HasDoubleSeparator(path) == \E i \in 1..(Len(path) - 1) : path[i] = "/" /\ path[i + 1] = "/"

(***************************************************************************)
(* C12: _firm_info, _individual_info and _fund_info strip the leading and  *)
(* trailing forward slashes of every modifier before the URL is built, so  *)
(* that '/Names/' gives the URL of 'Names'.  The code joins the modifiers  *)
(* as they are given.                                                      *)
(***************************************************************************)
C12_ModifiersAreStripped ==
    (Issued /\ op.name \in BaseHandlers)
    => request.url = DetailUrl(SegmentOf(op.name), op.id, Stripped(op.modifiers))

(***************************************************************************)
(* C13: for any identifier and any 0 to 3 modifiers, empty ones and ones   *)
(* with leading or trailing '/' included, the path of the URL the base     *)
(* handlers build never has two path separators in a row.                  *)
(***************************************************************************)
C13_NoDoubleSeparator ==
    (Issued /\ op.name \in BaseHandlers) => ~HasDoubleSeparator(PathOf(request.url))

TypeFilterOf(search_str) == search_str[Len(search_str)]

KnownType(type) == type \in {"firm", "individual", "fund"}

C15_Original_UnknownTypeFailsFast ==
    (pc # "idle" /\ op.name = "common_search" /\ ~KnownType(TypeFilterOf(op.text)))
    => /\ gets = 0
       /\ request = NoRequest
       /\ pc = "done"
       /\ outcome.kind = "raise"
       /\ outcome.exc \notin {"FsrApiRequestException", "FsrApiResponseException"}

(***************************************************************************)
(* C15, amended: common_search validates nothing: whatever type filter its *)
(* search string carries, one GET is issued to .../V0.1/Search?<search     *)
(* string> with the string as given, and the call ends as any other, with  *)
(* the response returned or with FsrApiRequestException.                   *)
(***************************************************************************)
C15_TypeFilterIsSentAsGiven ==
    (pc # "idle" /\ op.name = "common_search")
    => /\ gets = 1
       /\ request.url = <<"https:", "/", "/", "register.fca.org.uk", "/", "services", "/",
                          "V0.1", "/", "Search", "?">> \o op.text
       /\ pc = "done" =>
             \/ outcome.kind = "return" /\ got.exc = ""
             \/ outcome.kind = "raise" /\ outcome.exc = "FsrApiRequestException"

C15_Witness ==
    /\ pc = "done"
    /\ op.name = "common_search"
    /\ TypeFilterOf(op.text) = "company"
    /\ request.url[Len(request.url)] = "company"
    /\ gets = 1
    /\ outcome.kind = "return"
    /\ outcome.response.status = 200

(***************************************************************************)
(* C16: fsr_status, fsr_message, fsr_resultinfo and fsr_data are total     *)
(* over missing fields: for every parseable JSON body each returns the     *)
(* value of its field when the field is present and the absent value       *)
(* (None) when it is missing, and never raises.  This is the claim as      *)
(* stated; a body that parses to something other than an object has no     *)
(* get().                                                                  *)
(***************************************************************************)
HasRead == read.field # ""

ReadReturnsField(res) ==
    /\ read.result.exc = ""
    /\ read.result.val = IF read.field \in DOMAIN res.body.json.v
                         THEN res.body.json.v[read.field]
                         ELSE JNull

C16_Original_TotalOverParseableBodies ==
    (HasRead /\ got.res.body.valid) =>
        /\ read.result.exc = ""
        /\ got.res.body.json.t = "obj" => ReadReturnsField(got.res)

(***************************************************************************)
(* C16, amended: for every body that parses to a JSON object, each of the  *)
(* four properties returns the value of its field when present and None    *)
(* when the field is missing, and does not raise.                          *)
(***************************************************************************)
C16_TotalOverObjects ==
    (HasRead /\ got.res.body.valid /\ got.res.body.json.t = "obj") => ReadReturnsField(got.res)

C16_Witness ==
    /\ read.field = "Data"
    /\ got.res.body.valid
    /\ got.res.body.json = EnvelopeWithoutData
    /\ read.result = Val(JNull)

(***************************************************************************)
(* C17: when the response body is not parseable as JSON, the failure       *)
(* reaches the caller as FsrApiRequestException or                         *)
(* FsrApiResponseException, also when search_frn, search_irn or            *)
(* search_prn reads the payload.  The decoder's own exception leaves the   *)
(* search methods as it is.                                                *)
(***************************************************************************)
C17_UnparseableBodyIsTypedFailure ==
    (SearchDone /\ Delivered /\ ~got.res.body.valid)
    => /\ outcome.kind = "raise"
       /\ outcome.exc \in {"FsrApiRequestException", "FsrApiResponseException"}

(***************************************************************************)
(* C18: after construction from (api_username, api_key) the session's      *)
(* headers are exactly 'Accept': 'application/json', 'X-Auth-Email':       *)
(* api_username, 'X-Auth-Key': api_key, and the api_username and api_key   *)
(* properties return the constructor's arguments.  The code stores the     *)
(* three entries under upper-case keys in a plain dict.                    *)
(***************************************************************************)
C18_HeadersAsConstructed ==
    /\ <<api_username, api_key>> \in Credentials
    /\ headers = ("Accept" :> "application/json") @@ ("X-Auth-Email" :> api_username)
                 @@ ("X-Auth-Key" :> api_key)

(***************************************************************************)
(* C19: no client operation changes the credentials: api_username,         *)
(* api_key and the three session headers keep the values set at            *)
(* construction through every call, successful or failing, and every GET   *)
(* is sent with those identity, secret and accept-JSON headers.            *)
(***************************************************************************)
C19_CredentialsNeverChange ==
    [][/\ api_username' = api_username
       /\ api_key' = api_key
       /\ headers' = headers
       /\ DOMAIN headers' = {"ACCEPT", "X-AUTH-EMAIL", "X-AUTH-KEY"}
       /\ headers'["X-AUTH-EMAIL"] = api_username
       /\ headers'["X-AUTH-KEY"] = api_key
       /\ headers'["ACCEPT"] = "application/json"
       /\ pc' # "idle" => request'.headers = headers]_vars

C19_Witness ==
    /\ pc = "done"
    /\ op.name = "search_irn"
    /\ outcome.kind = "raise"
    /\ api_username = "ops@example.org"
    /\ api_key = "key-2"
    /\ request.headers["X-AUTH-EMAIL"] = "ops@example.org"
    /\ request.headers["X-AUTH-KEY"] = "key-2"
    /\ request.headers["ACCEPT"] = "application/json"

(***************************************************************************)
(* C20: the constants are API_VERSION = 'V0.1', BASEURL =                  *)
(* 'https://register.fca.org.uk/services/V0.1', and RESOURCE_TYPES with    *)
(* firm -> 'Firm', fund -> 'CIS', individual -> 'Individuals'.  The        *)
(* code's BASEURL ends at /services.  Stated of the constants as the       *)
(* client reads them when it builds the URL of a request.                  *)
(***************************************************************************)
C20_ConstantsAsTested ==
    pc # "idle" =>
    /\ SubSeq(request.url, 1, Len(BASEURL)) = BASEURL
    /\ API_VERSION = "V0.1"
    /\ BASEURL = <<"https:", "/", "/", "register.fca.org.uk", "/", "services", "/", "V0.1">>
    /\ RESOURCE_TYPES =
          [firm       |-> [type_name |-> "firm",       endpoint_base |-> "Firm"],
           fund       |-> [type_name |-> "fund",       endpoint_base |-> "CIS"],
           individual |-> [type_name |-> "individual", endpoint_base |-> "Individuals"]]

(***************************************************************************)
(* C21: search_frn, search_irn and search_prn return a non-null string     *)
(* when the name is found (one record with a non-empty reference number),  *)
(* and return None, rather than raising, when the name is not found (a     *)
(* successful response without payload).  The code raises in the second    *)
(* case.                                                                   *)
(***************************************************************************)
C21_NotFoundReturnsNone ==
    (SearchDone /\ Delivered /\ Successful(got.res))
    => /\ (IsListOf(got.res, 1) /\ IsRegisterRecord(DataOf(got.res).v[1]))
             => (outcome.kind = "return" /\ outcome.value.t = "str" /\ outcome.value.v # "")
       /\ NoPayload(got.res) => (outcome.kind = "return" /\ outcome.value = JNull)

(***************************************************************************)
(* C22: each public detail accessor is a fixed (resource type, modifier    *)
(* path) pair: get_firm* requests under 'Firm', get_individual* under      *)
(* 'Individuals', get_fund* under 'CIS'; the path after the identifier is  *)
(* the one the accessor gives for any other identifier, whatever calls     *)
(* came before; and in the two three-segment paths the caller's token is   *)
(* the middle segment.                                                     *)
(***************************************************************************)
\* the URL up to and including the identifier, and what follows it
UpToIdentifier(url) == SubSeq(url, 1, 12)

AfterIdentifier(url) == SubSeq(url, 13, Len(url))

DocumentedEndpoint(a, id, arg) ==
    <<"/", "V0.1", "/">> \o
    CASE a = "get_firm" -> <<"Firm", "/", id>>
      [] a = "get_firm_names" -> <<"Firm", "/", id, "/", "Names">>
      [] a = "get_firm_addresses" -> <<"Firm", "/", id, "/", "Address">>
      [] a = "get_firm_controlled_functions" -> <<"Firm", "/", id, "/", "CF">>
      [] a = "get_firm_individuals" -> <<"Firm", "/", id, "/", "Individuals">>
      [] a = "get_firm_permissions" -> <<"Firm", "/", id, "/", "Permissions">>
      [] a = "get_firm_requirements" -> <<"Firm", "/", id, "/", "Requirements">>
      [] a = "get_firm_requirement_investment_types" ->
            <<"Firm", "/", id, "/", "Requirements", "/">> \o arg \o <<"/", "InvestmentTypes">>
      [] a = "get_firm_regulators" -> <<"Firm", "/", id, "/", "Regulators">>
      [] a = "get_firm_passports" -> <<"Firm", "/", id, "/", "Passports">>
      [] a = "get_firm_passport_permissions" ->
            <<"Firm", "/", id, "/", "Requirements", "/">> \o arg \o <<"/", "Permission">>
      [] a = "get_firm_waivers" -> <<"Firm", "/", id, "/", "Waiver">>
      [] a = "get_firm_exclusions" -> <<"Firm", "/", id, "/", "Exclusions">>
      [] a = "get_firm_disciplinary_history" -> <<"Firm", "/", id, "/", "DisciplinaryHistory">>
      [] a = "get_firm_appointed_representatives" -> <<"Firm", "/", id, "/", "AR">>
      [] a = "get_individual" -> <<"Individuals", "/", id>>
      [] a = "get_individual_controlled_functions" -> <<"Firm", "/", id, "/", "CF">>
      [] a = "get_individual_disciplinary_history" ->
            <<"Firm", "/", id, "/", "DisciplinaryHistory">>
      [] a = "get_fund" -> <<"CIS", "/", id>>
      [] a = "get_fund_names" -> <<"CIS", "/", id, "/", "Names">>
      [] a = "get_fund_subfunds" -> <<"CIS", "/", id, "/", "Subfund">>

C23_DocumentedEndpointIsRequested ==
    (Issued /\ op.name \in Accessors)
    => SubSeq(request.url, 7, Len(request.url)) = DocumentedEndpoint(op.name, op.id, op.text)

(***************************************************************************)
(* C27: a payload that is a single object, not a list, is never reported   *)
(* as AmbiguousMatch by search_frn, search_irn or search_prn, however many *)
(* fields it has: of the payloads that are an object or a list, only a     *)
(* list of more than one record is.  The code takes len() of the object.   *)
(***************************************************************************)
C27_OnlySeveralRecordsAreAmbiguous ==
    (/\ SearchDone
     /\ Delivered
     /\ HasDataKey(got.res)
     /\ DataOf(got.res).t \in {"obj", "list"}
     /\ IsAmbiguousMatch(PluralNoun(op.name)))
    => IsListOfSeveral(got.res)

(***************************************************************************)
(* C28: every request URL the client builds, search and detail, has the    *)
(* version segment 'V0.1' exactly once, directly after the base            *)
(* 'https://register.fca.org.uk/services' and directly before 'Search' or  *)
(* the resource's path segment; 'V0.1' occurs nowhere else in the URL      *)
(* unless the caller's own text holds it.                                  *)
(***************************************************************************)
Occurrences(s, w) == Cardinality({i \in 1..Len(s) : s[i] = w})

\* the text the caller passed, as it went into the URL
CallerText ==
    IF op.name \in DetailOps THEN <<op.id>> \o Join(op.modifiers.items) ELSE op.text

C28_VersionSegmentOnce ==
    Issued
    => /\ SubSeq(request.url, 1, 9) =
             <<"https:", "/", "/", "register.fca.org.uk", "/", "services", "/", "V0.1", "/">>
       /\ request.url[10] = (IF op.name \in DetailOps THEN SegmentOf(op.name) ELSE "Search")
       /\ Occurrences(request.url, "V0.1") = 1 + Occurrences(CallerText, "V0.1")

C28_Witness ==
    /\ pc = "requesting"
    /\ op.name = "search_prn"
    /\ request.url[8] = "V0.1"
    /\ request.url[10] = "Search"
    /\ Occurrences(request.url, "V0.1") = 1

(***************************************************************************)
(* C29: the path segments and type filters written in the client agree     *)
(* with RESOURCE_TYPES: the firm, individual and fund detail handlers use  *)
(* the endpoint_base values, and search_frn, search_irn and search_prn     *)
(* send the type_name values as the type filter.                           *)
(***************************************************************************)
ResourceOf(name) ==
    CASE name \in FirmAccessors \cup {"_firm_info", "search_frn"} -> "firm"
      [] name \in IndividualAccessors \cup {"_individual_info", "search_irn"} -> "individual"
      [] name \in FundAccessors \cup {"_fund_info", "search_prn"} -> "fund"

C29_AgreesWithResourceTypes ==
    /\ (Issued /\ op.name \in DetailOps)
          => request.url[10] = RESOURCE_TYPES[ResourceOf(op.name)].endpoint_base
    /\ (Issued /\ op.name \in SearchOps)
          => /\ SubSeq(request.url, Len(request.url) - 2, Len(request.url) - 1) = <<"type", "=">>
             /\ request.url[Len(request.url)] = RESOURCE_TYPES[ResourceOf(op.name)].type_name

C29_Witness ==
    /\ pc = "requesting"
    /\ op.name = "get_individual_controlled_functions"
    /\ request.url[10] = "Individuals"
    /\ RESOURCE_TYPES["individual"].endpoint_base = "Individuals"

(***************************************************************************)
(* C30: search_frn, search_irn and search_prn implement the same decision  *)
(* procedure: on the transport result, status and payload one of them has  *)
(* met, each of the three ends in the same kind of outcome and returns the *)
(* same reference number; they differ in the noun of the failure message.  *)
(***************************************************************************)
OutcomeKind(o) ==
    CASE o.kind = "return" -> "success"
      [] o.kind = "raise" /\ o.exc = "FsrApiRequestException" -> "request failure"
      [] o.kind = "raise" /\ o.exc = "FsrApiResponseException" ->
            (CASE StartsWith(o.msg, "No", "data") -> "no match"
               [] Len(o.msg) > 0 /\ o.msg[1] = "Multiple" -> "ambiguous match"
               [] StartsWith(o.msg, "Unexpected", "response") -> "malformed response"
               [] OTHER -> "other reason")
      [] OTHER -> o.exc

C30_SameDecisionProcedure ==
    SearchDone
    => \A n \in SearchOps :
          LET o == Finish(n, got) IN
          /\ OutcomeKind(o) = OutcomeKind(outcome)
          /\ o.value = outcome.value
          /\ o.cause = outcome.cause
          /\ OutcomeKind(o) = "ambiguous match" => o.msg[2] = PluralNoun(n)
          /\ OutcomeKind(o) = "other reason" => o.msg = outcome.msg

C30_Witness ==
    /\ SearchDone
    /\ op.name = "search_prn"
    /\ Delivered
    /\ got.res.status = 200
    /\ IsListOf(got.res, 2)
    /\ IsAmbiguousMatch("funds")
    /\ OutcomeKind(Finish("search_frn", got)) = "ambiguous match"
    /\ Finish("search_irn", got).msg[2] = "individuals"

(***************************************************************************)
(* C24: name resolution is deterministic and carries no state between      *)
(* calls: a call of search_frn, search_irn or search_prn with the same     *)
(* name and the same transport result as an earlier call of the same       *)
(* operation ends in the same outcome (the same reference number or the    *)
(* same failure), whatever operations ran before or in between.            *)
(***************************************************************************)
SameCallAsEarlier ==
    /\ SearchDone
    /\ earlier.name = op.name
    /\ earlier.text = op.text
    /\ earlier.got = got

UrlAlone(o) ==
    CASE o.name = "common_search" -> common_search_url(o.text)
      [] o.name = "search_frn" -> common_search_url(urlencode(o.text, "firm"))
      [] o.name = "search_irn" -> common_search_url(urlencode(o.text, "individual"))
      [] o.name = "search_prn" -> common_search_url(urlencode(o.text, "fund"))
      [] o.name \in Accessors -> DetailUrl(SegmentOf(o.name), o.id, o.modifiers)

C26_EveryCallCompletes == (pc = "requesting") ~> (pc = "done")

====
